---- MODULE Spec2Model ----
(***************************************************************************)
(* Model of r6_market_bot.py: the alerts table (AlertRepo), the /alert     *)
(* commands (R6Bot.alert_add, alert_remove, alert_list) and the background *)
(* polling loop (R6Bot.poll_marketplaces with _notify_price_change).       *)
(* Every await of the source is a point where the other coroutines may     *)
(* run, so each await is one step of the state machine.                    *)
(***************************************************************************)
EXTENDS Integers, Sequences, FiniteSets, TLC

(***************************************************************************)
(* Bounds of the exploration.                                              *)
(***************************************************************************)
MaxCmds    == 2   \* slash commands issued in a behaviour
MaxChanges == 1   \* price changes of the marketplace in a behaviour
MaxPending == 1   \* alert_add invocations in flight at once
MaxListing == 2   \* entries of a provider listing, where listings vary

\* The universe: one guild, one user, two marketplace items and the prices
\* 0 and 1 (0 is a price Python treats as false).  poll_marketplaces runs
\* any number of times.
ItemNos == {1, 2}
Prices  == {0, 1}
Guilds  == {1}
Users   == {1}

(***************************************************************************)
(* Values.  Python's None is Null; strings are tuples of characters, so    *)
(* that re.fullmatch, str.lower and str() are computed, not assumed.       *)
(***************************************************************************)
Null   == 0 - 1
OptPrices == Prices \cup {Null}

Digits == <<"0", "1", "2", "3", "4", "5", "6", "7", "8", "9">>
IsDigit(c) == \E k \in 1..10 : Digits[k] = c

\* re.fullmatch(r"\d+", query)
IsAllDigits(s) == Len(s) >= 1 /\ \A k \in 1..Len(s) : IsDigit(s[k])

LowerChar(c) ==
  CASE c = "A" -> "a"
    [] c = "B" -> "b"
    [] c = "C" -> "c"
    [] c = "D" -> "d"
    [] OTHER -> c

\* str.lower()
Lower(s) == [k \in 1..Len(s) |-> LowerChar(s[k])]

\* str(n) for a non-negative integer
RECURSIVE Str(_)
Str(n) == IF n < 10 THEN <<Digits[n + 1]>>
          ELSE Str(n \div 10) \o <<Digits[(n % 10) + 1]>>

\* display names of the marketplace items, in id order
Names == << <<"A">>, <<"B">>, <<"C">>, <<"D">> >>

\* the provider's listing, as MarketplaceAPI.search() returns it
Listing == [n \in 1..Cardinality(ItemNos) |-> [id |-> n, name |-> Names[n]]]

ItemIds == {Str(n) : n \in ItemNos}

\* the item number a URL /item/{item_id} designates, 0 when the provider
\* knows no such item (the request then fails with 404)
ItemOf(s) == IF \E n \in ItemNos : Str(n) = s
             THEN CHOOSE n \in ItemNos : Str(n) = s
             ELSE 0

\* what users type as <skin_id_or_name>
Queries == ItemIds \cup {Names[n] : n \in ItemNos}
             \cup {Lower(Names[1]), <<"9">>, <<"z">>}

Triples == Guilds \X Users \X ItemIds

Row(g, u, i, p) == [guild_id |-> g, user_id |-> u, item_id |-> i, last_price |-> p]
KeyOf(r) == <<r.guild_id, r.user_id, r.item_id>>
Rows == {Row(t[1], t[2], t[3], p) : t \in Triples, p \in OptPrices}

VARIABLES
  alerts,     \* the alerts table: a set of rows
  market,     \* latest price of every marketplace item (Null: none listed)
  pc,         \* where poll_marketplaces stands
  snap,       \* `alerts` of poll_marketplaces: the rows all_alerts returned
  idx,        \* position of the for loop in snap
  rowlog,     \* what the running (or last) cycle did for each row of snap
  pending,    \* alert_add invocations between two awaits
  touched,    \* triples a command wrote or deleted since the last all_alerts
  lastNote,   \* new price of the last notification of a triple since the
              \* price of its item last changed (Null: none)
  listing,    \* what MarketplaceAPI.search() returns
  reply,      \* how the last /alert add that ended answered its user
  overtaken,  \* an add_alert committed the row the loop is at after the
              \* loop fetched its item
  ncmds, nchanges

vars == <<alerts, market, pc, snap, idx, rowlog, pending, touched,
          lastNote, listing, reply, overtaken, ncmds, nchanges>>

(***************************************************************************)
(* AlertRepo                                                               *)
(***************************************************************************)
\* the WHERE clause without its guild_id
RowsOf_any_guild(tbl, g, u, i) ==
  {r \in tbl : r.user_id = u /\ r.item_id = i}

RowsOf(tbl, g, u, i) ==
  {r \in tbl : r.guild_id = g /\ r.user_id = u /\ r.item_id = i}

\* a plain INSERT into a table that declares no key
add_alert_insert(tbl, g, u, i, p) == tbl \cup {Row(g, u, i, p)}

\* INSERT OR REPLACE INTO alerts VALUES (?, ?, ?, ?)
add_alert(tbl, g, u, i, p) == (tbl \ RowsOf(tbl, g, u, i)) \cup {Row(g, u, i, p)}

\* the DELETE without its commit: closing the connection rolls it back
remove_alert_uncommitted(tbl, g, u, i) == tbl

\* DELETE FROM alerts WHERE guild_id=? AND user_id=? AND item_id=?
remove_alert(tbl, g, u, i) == tbl \ RowsOf(tbl, g, u, i)

\* SELECT item_id, last_price FROM alerts WHERE guild_id=? AND user_id=?
list_alerts(tbl, g, u) ==
  {<<r.item_id, r.last_price>> : r \in {x \in tbl : x.guild_id = g /\ x.user_id = u}}

\* the update written as INSERT OR REPLACE
update_price_upsert(tbl, g, u, i, p) ==
  (tbl \ RowsOf(tbl, g, u, i)) \cup {Row(g, u, i, p)}

\* UPDATE alerts SET last_price=? WHERE guild_id=? AND user_id=? AND item_id=?
update_price(tbl, g, u, i, p) ==
  (tbl \ RowsOf(tbl, g, u, i)) \cup {Row(g, u, i, p) : r \in RowsOf(tbl, g, u, i)}

\* PRIMARY KEY (guild_id, user_id, item_id)
PrimaryKey(tbl) == \A r1, r2 \in tbl : KeyOf(r1) = KeyOf(r2) => r1 = r2

\* the orders in which SELECT ... FROM alerts may return the rows
RECURSIVE Orders(_)
Orders(S) == IF S = {} THEN {<< >>}
             ELSE UNION {{<<r>> \o o : o \in Orders(S \ {r})} : r \in S}

Baseline(tbl, t) ==
  IF RowsOf(tbl, t[1], t[2], t[3]) = {} THEN Null
  ELSE (CHOOSE r \in RowsOf(tbl, t[1], t[2], t[3]) : TRUE).last_price

Present(tbl, t) == RowsOf(tbl, t[1], t[2], t[3]) # {}

(***************************************************************************)
(* R6Bot._resolve_item_id                                                  *)
(***************************************************************************)
\* the comparison without .lower()
Matches_case(results, query) ==
  {k \in 1..Len(results) : results[k].name = query}

Matches(results, query) ==
  {k \in 1..Len(results) : Lower(results[k].name) = Lower(query)}

_resolve_item_id(query, results) ==
  IF IsAllDigits(query) THEN [found |-> TRUE, id |-> query]
  ELSE IF Matches(results, query) = {} THEN [found |-> FALSE, id |-> << >>]
  ELSE LET k == CHOOSE m \in Matches(results, query) :
                  \A j \in Matches(results, query) : m <= j
       IN [found |-> TRUE, id |-> Str(results[k].id)]

Init ==
  /\ alerts = {}
  /\ market \in [ItemNos -> OptPrices]
  /\ pc = "sleep"
  /\ snap = << >>
  /\ idx = 1
  /\ rowlog = << >>
  /\ pending = {}
  /\ touched = {}
  /\ lastNote = [t \in Triples |-> Null]
  /\ listing = Listing
  /\ reply = "none"
  /\ overtaken = FALSE
  /\ ncmds = 0
  /\ nchanges = 0

(***************************************************************************)
(* The marketplace changes the price of an item.                           *)
(***************************************************************************)
PriceChange(n, p) ==
  /\ nchanges < MaxChanges
  /\ market[n] # p
  /\ market' = [market EXCEPT ![n] = p]
  /\ lastNote' = [t \in Triples |-> IF t[3] = Str(n) THEN Null ELSE lastNote[t]]
  /\ nchanges' = nchanges + 1
  /\ UNCHANGED <<alerts, pc, snap, idx, rowlog, pending, touched, reply,
                 overtaken, ncmds,
                 listing>>

(***************************************************************************)
(* /alert add                                                              *)
(***************************************************************************)
\* up to the return of _resolve_item_id; `up` is whether search() answers
alert_add_resolve(g, u, q, up) ==
  /\ ncmds < MaxCmds
  /\ Cardinality(pending) < MaxPending
  /\ ncmds' = ncmds + 1
  /\ LET r == _resolve_item_id(q, listing) IN
       IF ~IsAllDigits(q) /\ ~up
       THEN \* search() raised: the exception leaves alert_add
            /\ reply' = "raised"
            /\ UNCHANGED pending
       ELSE IF ~r.found
       THEN \* followup "Skin non trovata", return
            /\ reply' = "not_found"
            /\ UNCHANGED pending
       ELSE /\ pending' = pending \cup
                 {[guild |-> g, user |-> u, item_id |-> r.id,
                   stage |-> "resolved", last_price |-> Null]}
            /\ UNCHANGED reply
  /\ UNCHANGED <<alerts, market, pc, snap, idx, rowlog, touched, lastNote,
                 overtaken, nchanges,
                 listing>>

\* item = await self.market_api.item(item_id_resolved)
alert_add_fetch(p, up) ==
  /\ p \in pending
  /\ p.stage = "resolved"
  /\ IF ItemOf(p.item_id) = 0 \/ ~up
     THEN \* raise_for_status: the exception leaves alert_add
          /\ pending' = pending \ {p}
          /\ reply' = "raised"
     ELSE /\ pending' = (pending \ {p}) \cup
               {[p EXCEPT !.stage = "fetched",
                          !.last_price = market[ItemOf(p.item_id)]]}
          /\ UNCHANGED reply
  /\ UNCHANGED <<alerts, market, pc, snap, idx, rowlog, touched, lastNote,
                 overtaken, ncmds, nchanges,
                 listing>>

\* await self.alert_repo.add_alert(...), then the followup
alert_add_commit(p) ==
  /\ p \in pending
  /\ p.stage = "fetched"
  /\ alerts' = add_alert(alerts, p.guild, p.user, p.item_id, p.last_price)
  /\ pending' = pending \ {p}
  /\ touched' = touched \cup {<<p.guild, p.user, p.item_id>>}
  /\ reply' = "set"
  /\ overtaken' = (overtaken \/ (/\ pc \in {"notify", "update"}
                                 /\ KeyOf(snap[idx]) = <<p.guild, p.user, p.item_id>>))
  /\ UNCHANGED <<market, pc, snap, idx, rowlog, lastNote, ncmds, nchanges,
                 listing>>

(***************************************************************************)
(* /alert remove and /alert list                                           *)
(***************************************************************************)
alert_remove(g, u, item_id) ==
  /\ ncmds < MaxCmds
  /\ ncmds' = ncmds + 1
  /\ alerts' = remove_alert(alerts, g, u, item_id)
  /\ touched' = touched \cup ({<<g, u, item_id>>} \cap Triples)
  /\ UNCHANGED <<market, pc, snap, idx, rowlog, pending, lastNote, reply,
                 overtaken, nchanges,
                 listing>>

alert_list(g, u) ==
  /\ ncmds < MaxCmds
  /\ ncmds' = ncmds + 1
  /\ UNCHANGED <<alerts, market, pc, snap, idx, rowlog, pending, touched,
                 lastNote, reply, overtaken, nchanges,
                 listing>>

(***************************************************************************)
(* R6Bot.poll_marketplaces                                                 *)
(***************************************************************************)
NoLog == [st |-> "pending", price |-> Null, notes |-> << >>, dl |-> "none",
          rowcount |-> 0, msg |-> << >>]

\* outcomes of _notify_price_change: delivered, get_guild returned None,
\* get_member returned None, member.send raised discord.Forbidden, or
\* member.send raised another error
Deliveries == {"ok", "no_guild", "no_member", "forbidden", "send_error"}

\* the outcomes in which member.send was called
Sent == {"ok", "forbidden", "send_error"}

\* {old_price or 'N/A'} in the f-string: None and 0 are both false
NA == <<"N", "/", "A">>
old_price_text(old_price) ==
  IF old_price = Null \/ old_price = 0 THEN NA ELSE Str(old_price)

\* the prices in the text given to member.send
Message(new_price, old_price) ==
  [old |-> old_price_text(old_price), new |-> Str(new_price)]

\* does the exception of this outcome leave _notify_price_change?
notify_raises(d) == d = "send_error"

\* the loop without the test of line 322
price_known_always(price) == TRUE

\* if price is None: continue
price_known(price) == price # Null

\* the test when price and last_price never compare equal (a str against
\* an int)
price_changed_always(price, last_price) == TRUE

\* if last_price is None or price != last_price
price_changed(price, last_price) == last_price = Null \/ price # last_price

CurRow == snap[idx]

\* a loop that returns after the row it is at
NextRow_return ==
  /\ idx' = idx + 1
  /\ pc' = "sleep"
  /\ overtaken' = FALSE

\* the for loop moves to its next row, or the cycle ends
NextRow ==
  /\ idx' = idx + 1
  /\ pc' = IF idx + 1 > Len(snap) THEN "sleep" ELSE "fetch"
  /\ overtaken' = FALSE

\* alerts = await self.alert_repo.all_alerts(); `up` is whether the store answers
poll_snapshot(order, up) ==
  /\ pc = "sleep"
  /\ IF ~up
     THEN \* the exception leaves poll_marketplaces
          /\ pc' = "raised"
          /\ UNCHANGED <<snap, idx, rowlog, touched>>
     ELSE /\ order \in Orders(alerts)
          /\ snap' = order
          /\ idx' = 1
          /\ rowlog' = [k \in 1..Len(order) |-> NoLog]
          /\ touched' = {}
          /\ pc' = IF Len(order) = 0 THEN "sleep" ELSE "fetch"
  /\ UNCHANGED <<alerts, market, pending, lastNote, reply, overtaken, ncmds,
                 nchanges,
                 listing>>

\* item = await self.market_api.item(item_id), then the two tests on price
poll_fetch(up) ==
  /\ pc = "fetch"
  /\ LET n == ItemOf(CurRow.item_id) IN
       IF n = 0 \/ ~up
       THEN \* caught by `except Exception`
            /\ rowlog' = [rowlog EXCEPT ![idx].st = "fetch_error"]
            /\ NextRow
       ELSE IF ~price_known(market[n])
       THEN /\ rowlog' = [rowlog EXCEPT ![idx].st = "no_price"]
            /\ NextRow
       ELSE IF ~price_changed(market[n], CurRow.last_price)
       THEN /\ rowlog' = [rowlog EXCEPT ![idx].st = "quiet",
                                        ![idx].price = market[n]]
            /\ NextRow
       ELSE /\ rowlog' = [rowlog EXCEPT ![idx].st = "changed",
                                        ![idx].price = market[n]]
            /\ pc' = "notify"
            /\ UNCHANGED <<idx, overtaken>>
  /\ UNCHANGED <<alerts, market, snap, pending, touched, lastNote, reply,
                 ncmds, nchanges,
                 listing>>

\* the loop with lines 325 and 326 swapped: update_price first, the
\* notification after it
poll_notify_deferred(d) ==
  /\ pc = "notify"
  /\ pc' = "update"
  /\ UNCHANGED <<alerts, market, snap, idx, rowlog, pending, touched, lastNote,
                 reply, overtaken, ncmds, nchanges,
                 listing>>

\* await self._notify_price_change(guild_id, user_id, item, price, last_price)
poll_notify(d) ==
  /\ pc = "notify"
  /\ rowlog' = [rowlog EXCEPT
       ![idx].notes = Append(@, [old |-> CurRow.last_price,
                                 new |-> rowlog[idx].price]),
       ![idx].dl = d,
       ![idx].msg = IF d \in Sent
                    THEN <<Message(rowlog[idx].price, CurRow.last_price)>>
                    ELSE @,
       ![idx].st = IF notify_raises(d) THEN "notify_raised" ELSE @]
  /\ lastNote' = [lastNote EXCEPT ![KeyOf(CurRow)] = rowlog[idx].price]
  /\ IF notify_raises(d)
     THEN NextRow            \* caught by `except Exception`
     ELSE pc' = "update" /\ UNCHANGED <<idx, overtaken>>
  /\ UNCHANGED <<alerts, market, snap, pending, touched, reply, ncmds,
                 nchanges,
                 listing>>

\* await self.alert_repo.update_price(guild_id, user_id, item_id, price)
poll_update(up) ==
  /\ pc = "update"
  /\ IF ~up
     THEN \* the store raised; caught by `except Exception`
          /\ rowlog' = [rowlog EXCEPT ![idx].st = "store_error"]
          /\ UNCHANGED alerts
     ELSE /\ alerts' = update_price(alerts, CurRow.guild_id, CurRow.user_id,
                                    CurRow.item_id, rowlog[idx].price)
          /\ rowlog' = [rowlog EXCEPT
               ![idx].st = "updated",
               ![idx].rowcount = Cardinality(RowsOf(alerts, CurRow.guild_id,
                                     CurRow.user_id, CurRow.item_id))]
  /\ NextRow
  /\ UNCHANGED <<market, snap, pending, touched, lastNote, reply, ncmds,
                 nchanges,
                 listing>>

Next ==
  \/ \E n \in ItemNos, p \in OptPrices : PriceChange(n, p)
  \/ \E g \in Guilds, u \in Users, q \in Queries : alert_remove(g, u, q)
  \/ \E g \in Guilds, u \in Users, q \in Queries, up \in BOOLEAN :
       alert_add_resolve(g, u, q, up)
  \/ \E p \in pending, up \in BOOLEAN : alert_add_fetch(p, up)
  \/ \E p \in pending : alert_add_commit(p)
  \/ \E g \in Guilds, u \in Users : alert_list(g, u)
  \/ \E order \in Orders(alerts), up \in BOOLEAN : poll_snapshot(order, up)
  \/ \E up \in BOOLEAN : poll_fetch(up)
  \/ \E d \in Deliveries : poll_notify(d)
  \/ \E up \in BOOLEAN : poll_update(up)

Spec == Init /\ [][Next]_vars

\* The same program when nothing around it fails: the provider and the store
\* answer every request and every notification is delivered.
NextNoFault ==
  \/ \E n \in ItemNos, p \in OptPrices : PriceChange(n, p)
  \/ \E g \in Guilds, u \in Users, q \in Queries : alert_remove(g, u, q)
  \/ \E g \in Guilds, u \in Users, q \in Queries :
       alert_add_resolve(g, u, q, TRUE)
  \/ \E p \in pending : alert_add_fetch(p, TRUE)
  \/ \E p \in pending : alert_add_commit(p)
  \/ \E g \in Guilds, u \in Users : alert_list(g, u)
  \/ \E order \in Orders(alerts) : poll_snapshot(order, TRUE)
  \/ poll_fetch(TRUE)
  \/ poll_notify("ok")
  \/ poll_update(TRUE)

SpecNoFault == Init /\ [][NextNoFault]_vars

\* The bot started on the r6bot.db an earlier run left: CREATE TABLE IF NOT
\* EXISTS keeps the rows, here one alert with any baseline.
InitRestart ==
  /\ alerts \in {{r} : r \in Rows}
  /\ market \in [ItemNos -> OptPrices]
  /\ pc = "sleep"
  /\ snap = << >>
  /\ idx = 1
  /\ rowlog = << >>
  /\ pending = {}
  /\ touched = {}
  /\ lastNote = [t \in Triples |-> Null]
  /\ listing = Listing
  /\ reply = "none"
  /\ overtaken = FALSE
  /\ ncmds = 0
  /\ nchanges = 0

SpecRestart == InitRestart /\ [][NextNoFault]_vars

(***************************************************************************)
(* AlertRepo on its own, called for the alerts of two guilds and two users *)
(* on the two items: any sequence of add_alert, remove_alert and           *)
(* update_price, and /alert list.                                          *)
(***************************************************************************)
Scopes      == {1, 2}
Subscribers == {1, 2}
RepoPrices  == {Null, 0}

InitRepo ==
  /\ alerts = {}
  /\ market = [n \in ItemNos |-> Null]
  /\ pc = "sleep"
  /\ snap = << >>
  /\ idx = 1
  /\ rowlog = << >>
  /\ pending = {}
  /\ touched = {}
  /\ lastNote = [t \in Triples |-> Null]
  /\ listing = Listing
  /\ reply = "none"
  /\ overtaken = FALSE
  /\ ncmds = 0
  /\ nchanges = 0

repo_add_alert(g, u, i, p) ==
  /\ alerts' = add_alert(alerts, g, u, i, p)
  /\ UNCHANGED <<market, pc, snap, idx, rowlog, pending, touched, lastNote,
                 reply, overtaken, ncmds, nchanges,
                 listing>>

repo_remove_alert(g, u, i) ==
  /\ alerts' = remove_alert(alerts, g, u, i)
  /\ UNCHANGED <<market, pc, snap, idx, rowlog, pending, touched, lastNote,
                 reply, overtaken, ncmds, nchanges,
                 listing>>

repo_update_price(g, u, i, p) ==
  /\ alerts' = update_price(alerts, g, u, i, p)
  /\ UNCHANGED <<market, pc, snap, idx, rowlog, pending, touched, lastNote,
                 reply, overtaken, ncmds, nchanges,
                 listing>>

NextRepo ==
  \/ \E g \in Scopes, u \in Subscribers, i \in ItemIds, p \in RepoPrices :
       repo_add_alert(g, u, i, p)
  \/ \E g \in Scopes, u \in Subscribers, i \in ItemIds :
       repo_remove_alert(g, u, i)
  \/ \E g \in Scopes, u \in Subscribers, i \in ItemIds, p \in RepoPrices \ {Null} :
       repo_update_price(g, u, i, p)
  \/ \E g \in Scopes, u \in Subscribers : alert_list(g, u)

SpecRepo == InitRepo /\ [][NextRepo]_vars

(***************************************************************************)
(* /alert add against any listing the provider may return: up to           *)
(* MaxListing entries, names that differ by case only, the same name       *)
(* twice, a name made of digits.                                           *)
(***************************************************************************)
ResolveNames   == {<<"A">>, <<"a">>, <<"B">>, <<"7">>}
ResolveQueries == {<<"A">>, <<"a">>, <<"b">>, <<"7">>, <<"z">>}
Entries  == [id : ItemNos, name : ResolveNames]
Listings == UNION {[1..n -> Entries] : n \in 0..MaxListing}

InitResolve ==
  /\ alerts = {}
  /\ market = [n \in ItemNos |-> 0]
  /\ pc = "sleep"
  /\ snap = << >>
  /\ idx = 1
  /\ rowlog = << >>
  /\ pending = {}
  /\ touched = {}
  /\ lastNote = [t \in Triples |-> Null]
  /\ listing \in Listings
  /\ reply = "none"
  /\ overtaken = FALSE
  /\ ncmds = 0
  /\ nchanges = 0

NextResolve ==
  \/ \E g \in Guilds, u \in Users, q \in ResolveQueries, up \in BOOLEAN :
       alert_add_resolve(g, u, q, up)
  \/ \E p \in pending, up \in BOOLEAN : alert_add_fetch(p, up)
  \/ \E p \in pending : alert_add_commit(p)

SpecResolve == InitResolve /\ [][NextResolve]_vars

\* The steps of poll_marketplaces.  tasks.loop starts a cycle every
\* POLL_INTERVAL seconds and every await of a cycle returns or raises, so a
\* step of the loop that stays possible is eventually taken.
Reconciler ==
  \/ \E order \in Orders(alerts), up \in BOOLEAN : poll_snapshot(order, up)
  \/ \E up \in BOOLEAN : poll_fetch(up)
  \/ \E d \in Deliveries : poll_notify(d)
  \/ \E up \in BOOLEAN : poll_update(up)

SpecFair == Spec /\ WF_vars(Reconciler)

(***************************************************************************)
(* Vocabulary of the properties.  A cycle has ended when poll_marketplaces *)
(* sleeps; rowlog then tells what the cycle did for each row of snap.      *)
(***************************************************************************)
SnapIdx == 1..Len(snap)

\* the fetch of row k succeeded with a known price
Fetched(k) == rowlog[k].price # Null

\* no command wrote or deleted the row since the snapshot
Untouched(k) == KeyOf(snap[k]) \notin touched

\* the store answered the update_price of row k, if there was one
StoreAnswered(k) == rowlog[k].st # "store_error"

\* some step of poll_marketplaces
ReconcilerStep == <<pc, idx, snap, rowlog>>' # <<pc, idx, snap, rowlog>>

\* the step that runs update_price for the current row
UpdateStep == pc = "update" /\ idx' = idx + 1

\* the step in which the add_alert of p commits
CommitStep(p) == p \in pending /\ p.stage = "fetched" /\ p \notin pending'

PendingKey(p) == <<p.guild, p.user, p.item_id>>

(***************************************************************************)
(* C1  Change detection: a row with baseline P whose fetch gives Q # P     *)
(* (Q known, no command on the row, the store answering) has, when the     *)
(* cycle ends, exactly one notification (old P, new Q) and baseline Q.     *)
(***************************************************************************)
C1_ChangeDetection ==
  pc = "sleep" =>
    \A k \in SnapIdx :
      ( /\ snap[k].last_price # Null
        /\ Fetched(k)
        /\ rowlog[k].price # snap[k].last_price
        /\ Untouched(k)
        /\ StoreAnswered(k) )
      => /\ rowlog[k].notes = << [old |-> snap[k].last_price,
                                  new |-> rowlog[k].price] >>
         /\ Baseline(alerts, KeyOf(snap[k])) = rowlog[k].price

(***************************************************************************)
(* C2  First observation: a row with baseline None whose fetch gives a     *)
(* known price Q has, when the cycle ends, exactly one notification        *)
(* (old None, new Q) and baseline Q; and a cycle that finds the baseline   *)
(* equal to the fetched price notifies nothing.                            *)
(***************************************************************************)
C2_FirstObservation ==
  pc = "sleep" =>
    \A k \in SnapIdx :
      /\ ( /\ snap[k].last_price = Null
           /\ Fetched(k)
           /\ Untouched(k)
           /\ StoreAnswered(k) )
         => /\ rowlog[k].notes = << [old |-> Null, new |-> rowlog[k].price] >>
            /\ Baseline(alerts, KeyOf(snap[k])) = rowlog[k].price
      /\ (Fetched(k) /\ rowlog[k].price = snap[k].last_price)
         => rowlog[k].notes = << >>

(***************************************************************************)
(* C3  Quiet case: a row with baseline P whose fetch gives P gets no       *)
(* notification and no write; its baseline is still P after the cycle      *)
(* provided no command wrote or deleted the row meanwhile.                 *)
(***************************************************************************)
C3_Quiet ==
  \A k \in SnapIdx :
    (Fetched(k) /\ rowlog[k].price = snap[k].last_price)
    => /\ rowlog[k].notes = << >>
       /\ rowlog[k].st = "quiet"
       /\ Untouched(k) => snap[k] \in alerts

\* C3 as first stated: the baseline is still P, whatever the commands did
C3_QuietAsStated ==
  \A k \in SnapIdx :
    (Fetched(k) /\ rowlog[k].price = snap[k].last_price)
    => /\ rowlog[k].notes = << >>
       /\ rowlog[k].st = "quiet"
       /\ snap[k] \in alerts

C3_Witness ==
  \E k \in SnapIdx :
    /\ pc = "sleep"
    /\ Fetched(k)
    /\ rowlog[k].price = snap[k].last_price
    /\ Untouched(k)
    /\ snap[k] \in alerts

(***************************************************************************)
(* C4  Sink failure: when the notification of a detected change is not     *)
(* delivered (no guild, no member, or the send fails), update_price still  *)
(* stores the new price in that cycle.                                     *)
(***************************************************************************)
Undelivered == {"no_guild", "no_member", "forbidden", "send_error"}

C4_SinkFailure ==
  pc = "sleep" =>
    \A k \in SnapIdx :
      (rowlog[k].dl \in Undelivered /\ Untouched(k) /\ StoreAnswered(k))
      => Baseline(alerts, KeyOf(snap[k])) = rowlog[k].price

(***************************************************************************)
(* C5  Isolation: when the fetch of row a fails and the fetch of row b     *)
(* gives a changed price, then at the end of the cycle b was notified once *)
(* and updated, a has no notification and its stored row is as it was, and *)
(* every row of the snapshot was processed; in either order of a and b.    *)
(***************************************************************************)
C5_Isolation ==
  pc = "sleep" =>
    \A a, b \in SnapIdx :
      ( /\ a # b
        /\ rowlog[a].st = "fetch_error"
        /\ Fetched(b)
        /\ rowlog[b].price # snap[b].last_price
        /\ Untouched(a) /\ Untouched(b)
        /\ StoreAnswered(b) )
      => /\ Len(rowlog[b].notes) = 1
         /\ Baseline(alerts, KeyOf(snap[b])) = rowlog[b].price
         /\ rowlog[a].notes = << >>
         /\ snap[a] \in alerts
         /\ \A k \in SnapIdx : rowlog[k].st # "pending"

(***************************************************************************)
(* C6  A remove that commits between the snapshot and update_price: the    *)
(* UPDATE changes no row and creates none, and the loop goes on; no step   *)
(* of poll_marketplaces ever creates a row.                                *)
(***************************************************************************)
C6_RemoveMidCycle ==
  [][ /\ ReconcilerStep =>
           \A t \in Triples : ~Present(alerts, t) => ~Present(alerts', t)
      /\ (UpdateStep /\ ~Present(alerts, KeyOf(CurRow))) =>
           /\ alerts' = alerts
           /\ pc' \in {"fetch", "sleep"}
           /\ rowlog'[idx].st = "updated" => rowlog'[idx].rowcount = 0 ]_vars

C6_Witness ==
  \E k \in SnapIdx :
    /\ rowlog[k].st = "updated"
    /\ rowlog[k].rowcount = 0
    /\ KeyOf(snap[k]) \in touched
    /\ ~Present(alerts, KeyOf(snap[k]))

(***************************************************************************)
(* C7  No duplicate: the reconciler never delivers, for one triple, two    *)
(* notifications with the same new price unless the price of the item      *)
(* changed in between.                                                     *)
(***************************************************************************)
C7_NoDuplicate ==
  [][ (pc = "notify" /\ pc' # "notify")
      => lastNote[KeyOf(CurRow)] # rowlog[idx].price ]_vars

(***************************************************************************)
(* C8  Key uniqueness and upsert: the table never holds two rows of one    *)
(* triple, and when an add commits, the triple has exactly one row, with   *)
(* the price that add observed, whether or not a row existed before.       *)
(***************************************************************************)
C8_Upsert ==
  /\ []PrimaryKey(alerts)
  /\ [][ \A p \in pending :
           CommitStep(p) =>
             RowsOf(alerts', p.guild, p.user, p.item_id)
               = {Row(p.guild, p.user, p.item_id, p.last_price)} ]_vars

\* the second command was an add of a triple the first had added: the row
\* was snapshotted with price 0, the cycle did not write it, and it now
\* holds price 1
C8_Witness ==
  /\ ncmds = 2
  /\ pending = {}
  /\ Len(snap) = 1
  /\ snap[1].last_price = 0
  /\ KeyOf(snap[1]) \in touched
  /\ rowlog[1].st \in {"pending", "fetch_error", "no_price", "quiet"}
  /\ alerts = {[snap[1] EXCEPT !.last_price = 1]}

(***************************************************************************)
(* C9  No lost update: when a remove of item_id commits, list shows no row *)
(* of that item, a remove of an absent triple changes nothing, and only    *)
(* the commit of an add makes an absent triple present again - no step of  *)
(* the reconciler does.                                                    *)
(***************************************************************************)
C9_NoLostUpdate ==
  [][ /\ (ncmds' # ncmds /\ pending' = pending /\ reply' = reply) =>
           \A g \in Guilds, u \in Users, q \in Queries :
             alert_remove(g, u, q) =>
               /\ \A e \in list_alerts(alerts', g, u) : e[1] # q
               /\ RowsOf(alerts, g, u, q) = {} => alerts' = alerts
      /\ alerts' # alerts =>
           \A t \in Triples :
             (~Present(alerts, t) /\ Present(alerts', t)) =>
               \E p \in pending : CommitStep(p) /\ PendingKey(p) = t ]_vars

\* add, then remove while the cycle that snapshotted the row is running,
\* then the cycle's update_price: list shows nothing
C9_Witness ==
  /\ ncmds = 2
  /\ pending = {}
  /\ pc = "sleep"
  /\ Len(snap) = 1
  /\ KeyOf(snap[1]) \in touched
  /\ rowlog[1].st = "updated"
  /\ list_alerts(alerts, snap[1].guild_id, snap[1].user_id) = {}

(***************************************************************************)
(* C10  Remove by name: a remove given a name that _resolve_item_id        *)
(* resolves to item i deletes the row of i that an add had stored.         *)
(***************************************************************************)
C10_RemoveByName ==
  [][ \A g \in Guilds, u \in Users, q \in Queries :
        LET r == _resolve_item_id(q, listing) IN
          (alert_remove(g, u, q) /\ ~IsAllDigits(q) /\ r.found)
          => ~Present(alerts', <<g, u, r.id>>) ]_vars

(***************************************************************************)
(* C11  Eventual convergence: for a row that from some point on stays in   *)
(* the table, whose item keeps the known price P, whose fetches succeed    *)
(* and while the store answers, under fair scheduling of the loop the      *)
(* stored baseline is eventually P for good and the loop no longer         *)
(* notifies for that row.                                                  *)
(***************************************************************************)
FetchOk(t) ==
  \A k \in SnapIdx : KeyOf(snap[k]) = t => rowlog[k].st # "fetch_error"

StoreOk == pc # "raised" /\ \A k \in SnapIdx : rowlog[k].st # "store_error"

Notifying(t) == pc = "notify" /\ KeyOf(CurRow) = t

C11_Convergence ==
  \A t \in Triples, P \in Prices :
    <>[]( /\ Present(alerts, t)
          /\ market[ItemOf(t[3])] = P
          /\ FetchOk(t)
          /\ StoreOk )
    => <>[](Baseline(alerts, t) = P /\ ~Notifying(t))

(***************************************************************************)
(* C12  Store failures abort the cycle, row failures do not: once the      *)
(* update_price of a row has failed, the cycle is over and no later row of *)
(* the snapshot is processed; a cycle in which only fetches or deliveries  *)
(* failed processes every row of its snapshot.                             *)
(***************************************************************************)
C12_StoreFailureAborts ==
  /\ \A k \in SnapIdx :
       rowlog[k].st = "store_error" =>
         /\ pc \notin {"fetch", "notify", "update"}
         /\ \A j \in SnapIdx : j > k => rowlog[j].st = "pending"
  /\ (pc = "sleep" /\ \A k \in SnapIdx : rowlog[k].st # "store_error")
       => \A j \in SnapIdx : rowlog[j].st # "pending"

(***************************************************************************)
(* C13  Rejected add: an add of a name that matches no item of the         *)
(* listing, or of an identifier the provider does not know, ends with the  *)
(* rejection message and leaves the table as it was.                       *)
(***************************************************************************)
C13_RejectedAdd ==
  [][ /\ ncmds' # ncmds =>
           \A g \in Guilds, u \in Users, q \in Queries :
             ( /\ alert_add_resolve(g, u, q, TRUE)
               /\ ~IsAllDigits(q)
               /\ Matches(listing, q) = {} )
             => /\ reply' = "not_found"
                /\ alerts' = alerts
                /\ pending' = pending
      /\ \A p \in pending :
           ( /\ p.stage = "resolved"
             /\ ItemOf(p.item_id) = 0
             /\ alert_add_fetch(p, TRUE) )
           => /\ reply' = "not_found"
              /\ alerts' = alerts ]_vars

(***************************************************************************)
(* C14  Emit before update: every update_price of the loop comes after one *)
(* call of _notify_price_change made in the same cycle for the same row    *)
(* with the same new price; the loop writes only in that step, only the    *)
(* row it is at, and never for a row whose fetched price equals a known    *)
(* snapshot baseline.                                                      *)
(***************************************************************************)
C14_EmitBeforeUpdate ==
  /\ [](\A k \in SnapIdx :
          rowlog[k].st \in {"updated", "store_error"} =>
            /\ rowlog[k].notes = << [old |-> snap[k].last_price,
                                     new |-> rowlog[k].price] >>
            /\ rowlog[k].price # Null
            /\ snap[k].last_price = Null \/ rowlog[k].price # snap[k].last_price)
  /\ [][ (ReconcilerStep /\ alerts' # alerts) =>
            /\ UpdateStep
            /\ Len(rowlog[idx].notes) = 1
            /\ \A r \in alerts' \ alerts :
                 /\ KeyOf(r) = KeyOf(CurRow)
                 /\ r.last_price = rowlog[idx].notes[1].new ]_vars

\* a cycle that notified (None -> 1 or 0 -> 1) and then stored 1
C14_Witness ==
  \E k \in SnapIdx :
    /\ rowlog[k].st = "updated"
    /\ rowlog[k].rowcount = 1
    /\ Len(rowlog[k].notes) = 1
    /\ rowlog[k].notes[1].new = 1
    /\ Untouched(k)
    /\ Baseline(alerts, KeyOf(snap[k])) = 1

(***************************************************************************)
(* C15  Snapshot working set: a cycle starts with one all_alerts read that *)
(* returns every row of the table once, and only after the previous cycle  *)
(* has processed or skipped every row of its own snapshot; during the      *)
(* cycle the snapshot does not change, the rows are taken in order, one at *)
(* a time and never again, and a triple that is not in the snapshot gets   *)
(* no notification and no write from the loop.                             *)
(***************************************************************************)
SnapKeys == {KeyOf(snap[k]) : k \in SnapIdx}

SnapshotStep == pc = "sleep" /\ pc' # "raised" /\ ReconcilerStep

C15_SnapshotWorkingSet ==
  [][ ReconcilerStep =>
        /\ SnapshotStep =>
             /\ \A k \in SnapIdx : rowlog[k].st # "pending"
             /\ {snap'[k] : k \in 1..Len(snap')} = alerts
             /\ Len(snap') = Cardinality(alerts)
             /\ idx' = 1
             /\ \A k \in 1..Len(snap') : rowlog'[k] = NoLog
        /\ pc # "sleep" =>
             /\ snap' = snap
             /\ idx \in SnapIdx
             /\ idx' \in {idx, idx + 1}
             /\ rowlog[idx].st \in {"pending", "changed"}
             /\ \A k \in SnapIdx \ {idx} : rowlog'[k] = rowlog[k]
             /\ \A t \in Triples \ {KeyOf(snap[idx])} :
                  /\ lastNote'[t] = lastNote[t]
                  /\ RowsOf(alerts', t[1], t[2], t[3]) = RowsOf(alerts, t[1], t[2], t[3])
        /\ \A t \in Triples \ SnapKeys' :
             /\ lastNote'[t] = lastNote[t]
             /\ RowsOf(alerts', t[1], t[2], t[3]) = RowsOf(alerts, t[1], t[2], t[3])
    ]_vars

\* a cycle is over; a triple added after its snapshot is in the table, was
\* not in the snapshot and got no notification
C15_Witness ==
  /\ pc = "sleep"
  /\ Len(snap) >= 1
  /\ \A k \in SnapIdx : rowlog[k].st # "pending"
  /\ \E t \in touched :
       /\ t \notin SnapKeys
       /\ Present(alerts, t)
       /\ lastNote[t] = Null

(***************************************************************************)
(* C16  Unknown price is skipped: when the fetch of a row succeeds and the *)
(* price is None, whatever the baseline, that step notifies nothing,       *)
(* writes nothing and moves to the next row; the cycle has no notification *)
(* for the row and its stored row is as snapshotted unless a command wrote *)
(* it; the next snapshot holds every row of the table again.               *)
(***************************************************************************)
C16_UnknownPriceSkipped ==
  /\ [](\A k \in SnapIdx :
          (rowlog[k].st \notin {"pending", "fetch_error"} /\ rowlog[k].price = Null)
          => /\ rowlog[k].st = "no_price"
             /\ rowlog[k].notes = << >>
             /\ Untouched(k) => snap[k] \in alerts)
  /\ [][ /\ ( /\ pc = "fetch"
              /\ ReconcilerStep
              /\ rowlog'[idx].st # "fetch_error"
              /\ market[ItemOf(CurRow.item_id)] = Null )
             => /\ alerts' = alerts
                /\ lastNote' = lastNote
                /\ rowlog'[idx] = [rowlog[idx] EXCEPT !.st = "no_price"]
                /\ idx' = idx + 1
                /\ pc' \in {"fetch", "sleep"}
         /\ SnapshotStep => \A r \in alerts : \E k \in 1..Len(snap') : snap'[k] = r
       ]_vars

\* a cycle skipped a row of baseline 0 whose item had no price
C16_Witness ==
  \E k \in SnapIdx :
    /\ pc = "sleep"
    /\ rowlog[k].st = "no_price"
    /\ snap[k].last_price = 0
    /\ Untouched(k)
    /\ snap[k] \in alerts

(***************************************************************************)
(* C17  No stale overwrite: when an add_alert has committed the row of the *)
(* triple the loop is at after the loop fetched the price of its item, and *)
(* the baseline that add stored is the known price the item has now, the   *)
(* update_price of the loop does not replace that baseline.                *)
(***************************************************************************)
C17_NoStaleOverwrite ==
  [][ ( /\ UpdateStep
        /\ overtaken
        /\ market[ItemOf(CurRow.item_id)] # Null
        /\ Baseline(alerts, KeyOf(CurRow)) = market[ItemOf(CurRow.item_id)] )
      => RowsOf(alerts', CurRow.guild_id, CurRow.user_id, CurRow.item_id)
           = RowsOf(alerts, CurRow.guild_id, CurRow.user_id, CurRow.item_id) ]_vars

(***************************************************************************)
(* C18  Scoping and frame: list for (guild, user) gives exactly the pairs  *)
(* (item, baseline) of the rows of that guild and that user and changes    *)
(* nothing; add_alert, remove_alert and update_price on one triple leave   *)
(* the rows of every other triple as they were.                            *)
(***************************************************************************)
Frame(t) ==
  \A r \in alerts \cup alerts' : KeyOf(r) # t => (r \in alerts /\ r \in alerts')

C18_ScopingFrame ==
  /\ [](\A g \in Scopes, u \in Subscribers :
          /\ \A i \in ItemIds, p \in RepoPrices :
               <<i, p>> \in list_alerts(alerts, g, u)
                 <=> [guild_id |-> g, user_id |-> u, item_id |-> i,
                      last_price |-> p] \in alerts
          /\ list_alerts(alerts, g, u) \subseteq ItemIds \X RepoPrices)
  /\ [][ /\ \A g \in Scopes, u \in Subscribers :
              alert_list(g, u) => alerts' = alerts
         /\ alerts' # alerts =>
              \A g \in Scopes, u \in Subscribers, i \in ItemIds :
                ( \/ \E p \in RepoPrices : repo_add_alert(g, u, i, p)
                  \/ repo_remove_alert(g, u, i)
                  \/ \E p \in RepoPrices : repo_update_price(g, u, i, p) )
                => Frame(<<g, u, i>>) ]_vars

\* user 1 has item 1 with baseline 0 in guild 1 and with baseline None in
\* guild 2, user 2 has item 1 in guild 1
C18_Witness ==
  /\ {r \in alerts : r.item_id = <<"1">>}
       = {Row(1, 1, <<"1">>, 0), Row(2, 1, <<"1">>, Null), Row(1, 2, <<"1">>, Null)}
  /\ list_alerts(alerts, 1, 1) = {<< <<"1">>, 0 >>}
  /\ list_alerts(alerts, 2, 1) = {<< <<"1">>, Null >>}

(***************************************************************************)
(* C19  Name resolution: an add resolves its query to the id of the first  *)
(* entry of the listing, in provider order, whose name equals the query    *)
(* without regard to case, and is rejected as not found when no entry      *)
(* matches.  As first stated this covers every query, a name made of       *)
(* digits included; as amended a query made only of digits is taken as the *)
(* item id itself.                                                         *)
(***************************************************************************)
FirstMatch(q) ==
  {k \in 1..Len(listing) :
     /\ Lower(listing[k].name) = Lower(q)
     /\ \A j \in 1..(k - 1) : Lower(listing[j].name) # Lower(q)}

ResolvedTo(g, u, id) ==
  \E p \in pending' :
    p.guild = g /\ p.user = u /\ p.item_id = id /\ p.stage = "resolved"

NotFound == reply' = "not_found" /\ pending' = pending

ByName(g, u, q) ==
  IF FirstMatch(q) = {} THEN NotFound
  ELSE \A k \in FirstMatch(q) : ResolvedTo(g, u, Str(listing[k].id))

\* as first stated, for the queries that are names: not made of digits, or
\* the display name of an entry of the listing
C19_NameResolution ==
  [][ ncmds' # ncmds =>
        \A g \in Guilds, u \in Users, q \in ResolveQueries :
          (alert_add_resolve(g, u, q, TRUE)
             /\ (~IsAllDigits(q) \/ FirstMatch(q) # {}))
          => ByName(g, u, q) ]_vars

\* as amended

C19_NameResolutionOfNames ==
  [][ ncmds' # ncmds =>
        \A g \in Guilds, u \in Users, q \in ResolveQueries :
          alert_add_resolve(g, u, q, TRUE) =>
            IF IsAllDigits(q) THEN ResolvedTo(g, u, q) ELSE ByName(g, u, q) ]_vars

\* the listing has "A" for item 2 before "a" for item 1, and an add was
\* resolved to item 2 (no query of ResolveQueries is the id 2 itself)
C19_Witness ==
  /\ listing = << [id |-> 2, name |-> <<"A">>], [id |-> 1, name |-> <<"a">>] >>
  /\ \E p \in pending : p.item_id = <<"2">> /\ p.stage = "resolved"

(***************************************************************************)
(* C20  Old price in the notification: the text given to member.send shows *)
(* the snapshot baseline of the row as its old price whenever that         *)
(* baseline is an integer, 0 included, and N/A only when it is None.       *)
(***************************************************************************)
C20_OldPriceShown ==
  \A k \in SnapIdx :
    \A m \in 1..Len(rowlog[k].msg) :
      rowlog[k].msg[m].old = IF snap[k].last_price = Null THEN NA
                             ELSE Str(snap[k].last_price)

====
